---- MODULE Spec2Model ----
(***************************************************************************)
(* A model of xilem's App driver and WakeQueue (src/xilem/src/app.rs).     *)
(*                                                                         *)
(* The driver thread owns the App; producer threads share its WakeQueue.   *)
(* View, Cx, Pod and the widgets live in other modules of the crate: they  *)
(* appear here as small operators that follow the written design.          *)
(*                                                                         *)
(* Variables whose name starts with h_ are history variables: they record  *)
(* what the code did (calls made, id paths pushed and taken) and never     *)
(* influence it.                                                           *)
(***************************************************************************)
EXTENDS Integers, Sequences, FiniteSets, TLC

\* ---------------------------------------------------------------- bounds
\* Number of producer threads sharing the WakeQueue.
NumProducers == 2
\* Total number of push_wake calls in one behaviour of the queue protocols.
MaxPushes == 2
\* Total number of push_wake calls between the driver's operations in Spec.
MaxWakes == 1
\* Number of restarts one App::paint call may make in Spec.
MaxPasses == 2
\* Largest number of events the widgets enqueue for one raw event.
MaxBatch == 1

\* Total number of requests sent to the AppTask in one behaviour.
MaxRequests == 4
\* Number of times a rebuild may tear the root down and give it a new id.
MaxTeardowns == 2

\* Longest call history kept for one driver operation; every operation of
\* Spec stays below it.
MaxTrace == (MaxPasses + 2) * 12 + 2 * (MaxBatch + MaxPushes + MaxWakes)

Producers == 1..NumProducers

\* ----------------------------------------------------------- value spaces
\* Option<T>: None is the empty tuple, Some(x) the one-element tuple.
None == <<>>

Some(x) == <<x>>

Unwrap(o) == o[1]

\* Id paths: the first segment is the root view's id.
RootId == 1

\* Id paths the widgets of the tree put in the events they enqueue.
EvPaths == { <<RootId>>, <<RootId, 2>> }

\* Id paths the wakers handed out by the context carry.
WakePaths == { <<RootId>>, <<RootId, 2>> }

\* The application data: a counter that wraps around.
DataValues == { 0, 1 }

\* Payloads.
AsyncWake == "AsyncWake"

WidgetBodies == { "Msg" }

RawEvents == { "MouseDown" }

Sizes == { 0, 1 }

WindowHandles == { "w1" }

\* The variants of root view the application logic can return, each with its
\* own concrete element type.
RootKinds == { "V", "W" }

\* Scopes a build or a rebuild may leave on the context (0 = balanced).
Leaks == { 0, 1 }

Event(id_path, body) == [id_path |-> id_path, body |-> body]

\* Sequences over S of length at most n.
RECURSIVE SeqsUpTo(_, _)
SeqsUpTo(S, n) ==
  IF n = 0 THEN { <<>> }
  ELSE LET shorter == SeqsUpTo(S, n - 1)
       IN shorter \cup { Append(s, x) : s \in { t \in shorter : Len(t) = n - 1 }, x \in S }

WidgetEvents == { Event(p, b) : p \in EvPaths, b \in WidgetBodies }

\* What the widgets may enqueue while they handle one raw event.
EventBatches == SeqsUpTo(WidgetEvents, MaxBatch)

\* What the widgets may enqueue in one phase of a paint pass: nothing, one
\* event, or two events for different nodes.
PhaseBatches ==
  { << >>,
    << Event(<<RootId, 2>>, "Msg") >>,
    << Event(<<RootId>>, "Msg"), Event(<<RootId, 2>>, "Msg") >> }

\* Id paths of a node that is no longer in the view tree.
StalePaths == { <<RootId, 3>> }

\* Batches in which an event for a removed node comes alone, before, or after
\* an event for a node of the tree.
StaleBatches ==
  { << Event(<<RootId, 3>>, "Msg") >>,
    << Event(<<RootId, 3>>, "Msg"), Event(<<RootId, 2>>, "Msg") >>,
    << Event(<<RootId>>, "Msg"), Event(<<RootId, 3>>, "Msg") >> }

\* Event batches of the requests sent to the AppTask.
TaskBatches == { << >>, << Event(<<RootId, 2>>, "Msg") >> }

\* Id paths a caller of the public push_wake may hand in: also the empty one.
AnyWakePaths == WakePaths \cup { << >> }

VARIABLES
  data,          \* App.data
  view,          \* App.view: Option<V>
  id,            \* App.id: Option<Id>
  state,         \* App.state: Option<V::State>
  events,        \* App.events: Vec<Event>
  window_handle, \* App.window_handle
  root_pod,      \* App.root_pod: Option<Pod>
  size,          \* App.size
  cx,            \* App.cx: the context's handle and scope-stack depth
  root_kind,     \* the variant of root view the application logic returns
  taken,         \* wake_async: the id paths its take returned, not yet made events
  wake_queue,    \* the Vec<IdPath> inside the WakeQueue's mutex
  mutex,         \* holder of the WakeQueue's mutex: 0 = free, else a producer
  prod,          \* each producer's position in push_wake and its locals
  signals,       \* idle wake-ups scheduled and not yet delivered
  pc,            \* the driver: "idle", "paint" inside App::paint's loop, or
                 \* "wake" inside wake_async after its take
  fault,         \* "none", or the panic that stopped the process
  h_trace,       \* calls made by the current (or last) driver operation
  h_builds,      \* number of View::build calls so far
  h_pushed,      \* id paths appended to the queue, in order
  h_taken,       \* id paths returned by take calls, in order, with the caller
  h_since_take,  \* the appends since the last take: queue length before, value returned
  h_woken,       \* id paths dispatched as AsyncWake events, in order
  task,          \* the AppTask: data, view, state, and where its run loop is
  req_chan,      \* the request channel: messages in flight, senders dropped?
  response_chan, \* the response channel: messages in flight, receiver dropped?
  held,          \* the last RenderResponse the caller received
  h_handled      \* the requests the AppTask handled, in order, with the outcome

vars == << data, view, id, state, events, window_handle, root_pod, size, cx,
           root_kind, taken, wake_queue, mutex, prod, signals, pc, fault,
           h_trace, h_builds, h_pushed, h_taken, h_since_take, h_woken,
           task, req_chan, response_chan, held, h_handled >>

taskVars == << task, req_chan, response_chan, held, h_handled >>

\* What the producer threads never touch.
appVars == << data, view, id, state, events, window_handle, root_pod, size, cx,
              root_kind, taken, pc, h_trace, h_builds, h_woken, taskVars >>

queueVars == << wake_queue, mutex, h_pushed, h_taken, h_since_take >>


\* ------------------------------------------------------------ call history
Entry(op, path, body) == [op |-> op, path |-> path, body |-> body]

Call(op) == Entry(op, <<>>, "")

\* Appends e to the history, which keeps at most MaxTrace entries.
Log(tr, e) == IF Len(tr) < MaxTrace THEN Append(tr, e) ELSE tr

RECURSIVE LogAll(_, _)
LogAll(tr, es) == IF es = <<>> THEN tr ELSE LogAll(Log(tr, Head(es)), Tail(es))

Enqueued(evs) == [i \in 1..Len(evs) |-> Entry("enqueue", evs[i].id_path, evs[i].body)]

Positions(tr, op) == { i \in 1..Len(tr) : tr[i].op = op }

CountOp(tr, op) == Cardinality(Positions(tr, op))

\* ------------------------------------------------------------- WakeQueue
\* A lock that excludes nobody.
LockIgnored(m) == TRUE

\* self.0.lock(): the mutex is acquired only when nobody holds it.
LockFree(m) == m = 0

\* An emptiness test that never reports an empty queue.
IsEmptyNever(q) == FALSE

\* queue.is_empty()
IsEmpty(q) == Len(q) = 0

\* queue.push(id_path)
Push(q, id_path) == Append(q, id_path)

\* std::mem::replace(&mut queue, Vec::new()): the value returned ...
TakeResult(q) == q

\* A take that returns a copy and leaves the queue as it was.
TakeKeeps(q) == q

\* ... and the value left in the queue.
TakeLeaves(q) == << >>

\* ------------------------------------------- the view and widget modules
\* The application-logic function: a fresh view of the data.
AppLogic(d) == [ty |-> root_kind, label |-> d]

\* The concrete type of the element a view builds: each variant of root view
\* has its own.
ElementType(v) == IF v.ty = "V" THEN "E" ELSE "EW"

\* The children a view has below the root.
ChildIds(v) == { 2 }

\* Whether an id path (root segment already removed) names a node of v.
Resolves(v, path) == path = <<>> \/ (Len(path) = 1 /\ path[1] \in ChildIds(v))

\* View::event: a resolving event advances the data, a stale one is dropped.
ViewEvent(v, path, st, body, d) ==
  IF Resolves(v, path)
  THEN [state |-> [last |-> body], data |-> (d + 1) % Cardinality(DataValues)]
  ELSE [state |-> st, data |-> d]

\* View::build: a fresh id, state and element; leak scopes stay on the context.
Build(v, c, n, leak) ==
  [id |-> RootId + n,
   state |-> [last |-> "built"],
   element |-> [ty |-> ElementType(v), text |-> v.label],
   cx |-> [c EXCEPT !.depth = @ + leak]]

\* View::rebuild against the previous view: a compatible view patches the
\* element in place; an incompatible one (another variant) tears the old
\* subtree down and builds afresh, with a new id.
Rebuild(v, prev, i, st, el, c, leak) ==
  IF v.ty = prev.ty
  THEN [changed |-> v # prev,
        id |-> i,
        state |-> st,
        element |-> [el EXCEPT !.text = v.label],
        cx |-> [c EXCEPT !.depth = @ + leak]]
  ELSE [changed |-> TRUE,
        id |-> i + 1,
        state |-> [last |-> "built"],
        element |-> [ty |-> ElementType(v), text |-> v.label],
        cx |-> [c EXCEPT !.depth = @ + leak]]

\* Cx::is_empty
CxIsEmpty(c) == c.depth = 0

\* Pod::new
PodNew(element) == [element |-> element, needs_update |-> TRUE]

\* Pod::update clears the update request; Pod::request_update sets it.
PodUpdate(pod) == [pod EXCEPT !.needs_update = FALSE]

PodRequestUpdate(pod) == [pod EXCEPT !.needs_update = TRUE]

\* CxState::has_events
HasEvents(evs) == Len(evs) > 0

\* ------------------------------------------------------------------- App
\* The App as one record, so that the methods compose as in the source.
App ==
  [data |-> data, view |-> view, id |-> id, state |-> state, events |-> events,
   window_handle |-> window_handle, root_pod |-> root_pod, size |-> size,
   cx |-> cx, taken |-> taken, pc |-> pc, fault |-> fault,
   trace |-> h_trace, builds |-> h_builds, woken |-> h_woken]

\* App::new
AppNew ==
  [data |-> 0, view |-> None, id |-> None, state |-> None, events |-> << >>,
   window_handle |-> "default", root_pod |-> None, size |-> 0,
   cx |-> [handle |-> "none", depth |-> 0], taken |-> << >>, pc |-> "idle",
   fault |-> "none", trace |-> << >>, builds |-> 0, woken |-> << >>]

\* A panic: the process stops where it is.
Panic(a, what) == [a EXCEPT !.fault = what]

\* The start of a public method: a new call history.
Enter(a, method) == [a EXCEPT !.trace = << Entry("call", <<>>, method) >>]

\* A test that asks for a build whatever the view is.
AlwaysBuild(v) == TRUE

\* if self.view.is_none()
NeedsBuild(v) == v = None

\* Statements run in sequence: the value of e is computed once and handed on.
Then(e, F(_)) == CHOOSE x \in { F(v) : v \in { e } } : TRUE

\* An ensure_app that stores the view and forgets the id, state and root pod.
ensure_app_view_only(app, leak) ==
  Then(app, LAMBDA a :
    IF a.fault # "none" THEN a
    ELSE IF NeedsBuild(a.view)
    THEN Then(AppLogic(a.data), LAMBDA v :
         Then(Build(v, a.cx, a.builds, leak), LAMBDA b :
           [a EXCEPT !.view = Some(v),
                     !.cx = b.cx,
                     !.builds = @ + 1,
                     !.trace = Log(Log(@, Call("app_logic")), Call("build"))]))
    ELSE a)

\* App::ensure_app
ensure_app(app, leak) ==
  Then(app, LAMBDA a :
    IF a.fault # "none" THEN a
    ELSE IF NeedsBuild(a.view)
    THEN Then(AppLogic(a.data), LAMBDA v :
         Then(Build(v, a.cx, a.builds, leak), LAMBDA b :
           [a EXCEPT !.view = Some(v),
                     !.id = Some(b.id),
                     !.state = Some(b.state),
                     !.root_pod = Some(PodNew(b.element)),
                     !.cx = b.cx,
                     !.builds = @ + 1,
                     !.trace = Log(Log(@, Call("app_logic")), Call("build"))]))
    ELSE a)

\* App::connect
connect(a, h) ==
  [a EXCEPT !.window_handle = h, !.cx = [@ EXCEPT !.handle = h]]

\* App::size
set_size(a, s) == [a EXCEPT !.size = s]

\* &event.id_path[1..]
DispatchPath(id_path) == Tail(id_path)

\* The events in the opposite order.
DrainReversed(evs) == [i \in 1..Len(evs) |-> evs[Len(evs) + 1 - i]]

\* self.events.drain(..): the order in which the events are visited.
DrainOrder(evs) == evs

\* A loop body that refuses an id path the view tree does not resolve.
DispatchOneStrict(a, e) ==
  IF Len(e.id_path) < 1 THEN Panic(a, "slice_out_of_range")
  ELSE IF a.view = None \/ a.state = None THEN Panic(a, "unwrap_none")
  ELSE IF ~Resolves(Unwrap(a.view), Tail(e.id_path)) THEN Panic(a, "stale_event")
  ELSE Then(ViewEvent(Unwrap(a.view), Tail(e.id_path), Unwrap(a.state), e.body, a.data),
            LAMBDA r :
         [a EXCEPT !.state = Some(r.state),
                   !.data = r.data,
                   !.woken = IF e.body = AsyncWake THEN Append(@, e.id_path) ELSE @,
                   !.trace = Log(@, Entry("dispatch", Tail(e.id_path), e.body))])

\* A loop body that drops an event whose id path has no segment.
DispatchOneLenient(a, e) ==
  IF Len(e.id_path) < 1 THEN a
  ELSE IF a.view = None \/ a.state = None THEN Panic(a, "unwrap_none")
  ELSE Then(ViewEvent(Unwrap(a.view), Tail(e.id_path), Unwrap(a.state), e.body, a.data),
            LAMBDA r :
         [a EXCEPT !.state = Some(r.state),
                   !.data = r.data,
                   !.woken = IF e.body = AsyncWake THEN Append(@, e.id_path) ELSE @,
                   !.trace = Log(@, Entry("dispatch", Tail(e.id_path), e.body))])

\* The body of the for loop of run_app_logic for one event.
DispatchOne(a, e) ==
  IF Len(e.id_path) < 1 THEN Panic(a, "slice_out_of_range")
  ELSE IF a.view = None \/ a.state = None THEN Panic(a, "unwrap_none")
  ELSE Then(DispatchPath(e.id_path), LAMBDA p :
       Then(ViewEvent(Unwrap(a.view), p, Unwrap(a.state), e.body, a.data), LAMBDA r :
         [a EXCEPT !.state = Some(r.state),
                   !.data = r.data,
                   !.woken = IF e.body = AsyncWake THEN Append(@, e.id_path) ELSE @,
                   !.trace = Log(@, Entry("dispatch", p, e.body))]))

\* The for loop of run_app_logic over the drained events.  A panic inside
\* the loop ends it; the rest of the drained range is dropped.
RECURSIVE DispatchEvents(_, _)
DispatchEvents(app, evs) ==
  Then(app, LAMBDA a :
    IF evs = << >> \/ a.fault # "none" THEN a
    ELSE DispatchEvents(DispatchOne(a, Head(evs)), Tail(evs)))

\* Pod::downcast_mut: the dynamic check whether the retained element is of
\* the concrete element type of the new view; it yields the typed element
\* only then.
Downcast(pod, v) == pod.element.ty = ElementType(v)

\* A rebuild branch without the assertion: the new view is stored whatever
\* the rebuild left on the context.
RebuildRootUnchecked(a, v, leak) ==
  IF a.view = None \/ a.id = None \/ a.state = None
  THEN Panic(a, "unwrap_none")
  ELSE Then(Rebuild(v, Unwrap(a.view), Unwrap(a.id), Unwrap(a.state),
                    Unwrap(a.root_pod).element, a.cx, leak), LAMBDA r :
       Then([Unwrap(a.root_pod) EXCEPT !.element = r.element], LAMBDA pod :
         [a EXCEPT !.id = Some(r.id),
                   !.state = Some(r.state),
                   !.cx = r.cx,
                   !.root_pod = Some(IF r.changed THEN PodRequestUpdate(pod) ELSE pod),
                   !.view = Some(v),
                   !.trace = Log(@, Call("rebuild"))]))

\* run_app_logic from the rebuild on: the element is of the view's type.
RebuildRoot(a, v, leak) ==
  IF a.view = None \/ a.id = None \/ a.state = None
  THEN Panic(a, "unwrap_none")
  ELSE Then(Rebuild(v, Unwrap(a.view), Unwrap(a.id), Unwrap(a.state),
                    Unwrap(a.root_pod).element, a.cx, leak), LAMBDA r :
       Then([Unwrap(a.root_pod) EXCEPT !.element = r.element], LAMBDA pod :
       Then([a EXCEPT !.id = Some(r.id),
                      !.state = Some(r.state),
                      !.cx = r.cx,
                      !.root_pod = Some(IF r.changed THEN PodRequestUpdate(pod) ELSE pod),
                      !.trace = Log(@, Call("rebuild"))], LAMBDA a3 :
         IF CxIsEmpty(a3.cx)
         THEN [a3 EXCEPT !.view = Some(v)]
         ELSE Panic(a3, "id_path_imbalance"))))

\* App::run_app_logic
run_app_logic(app, leak) ==
  Then(app, LAMBDA a :
    IF a.fault # "none" THEN a
    ELSE
    Then(DispatchEvents([a EXCEPT !.trace = Log(@, Call("run_app_logic")),
                                  !.events = << >>],
                        DrainOrder(a.events)), LAMBDA a1 :
      IF a1.fault # "none" THEN a1
      ELSE
      Then(AppLogic(a1.data), LAMBDA v :
      Then([a1 EXCEPT !.trace = Log(@, Call("app_logic"))], LAMBDA a2 :
        IF a2.root_pod = None THEN Panic(a2, "unwrap_none")
        ELSE IF Downcast(Unwrap(a2.root_pod), v)
        THEN RebuildRoot(a2, v, leak)
        ELSE [a2 EXCEPT !.view = Some(v)]))))

\* A test that restarts whether or not there are events.
AlwaysRestart(has_events) == TRUE

\* if cx_state.has_events() after update, measure and layout: restart?
RestartAfterLayout(has_events) == has_events

\* A test that goes on to paint whether or not there are events.
NeverRestart(has_events) == FALSE

\* if cx_state.has_events() after prepare_paint: restart?
RestartAfterPreparePaint(has_events) == has_events

\* App::paint up to the loop: fill the background, ensure_app.
paint_begin(app, leak) ==
  Then(app, LAMBDA a :
  Then(ensure_app([a EXCEPT !.trace = Log(@, Call("fill"))], leak), LAMBDA a1 :
    IF a1.fault # "none" THEN a1 ELSE [a1 EXCEPT !.pc = "paint"]))

\* One iteration of the loop of App::paint.  ev_layout is what update, measure
\* and layout enqueue, ev_prepare what prepare_paint enqueues.
paint_pass(app, ev_layout, ev_prepare, leak) ==
  Then(app, LAMBDA a :
    IF a.fault # "none" THEN a
    ELSE IF a.root_pod = None THEN Panic(a, "unwrap_none")
    ELSE
    Then([a EXCEPT !.root_pod = Some(PodUpdate(Unwrap(@))),
                   !.events = @ \o ev_layout,
                   !.trace = LogAll(@, << Call("update") >> \o Enqueued(ev_layout)
                                        \o << Call("measure"), Call("layout") >>)],
         LAMBDA a1 :
      IF RestartAfterLayout(HasEvents(a1.events))
      THEN run_app_logic(a1, leak)
      ELSE
      Then([a1 EXCEPT !.events = @ \o ev_prepare,
                      !.trace = LogAll(@, << Call("prepare_paint") >>
                                           \o Enqueued(ev_prepare))],
           LAMBDA a2 :
        IF RestartAfterPreparePaint(HasEvents(a2.events))
        THEN run_app_logic(a2, leak)
        ELSE [a2 EXCEPT !.trace = Log(@, Call("paint")), !.pc = "idle"])))

\* App::window_event: ev_widgets is what the widgets enqueue for the raw event.
window_event(app, raw, ev_widgets, leak_build, leak) ==
  Then(ensure_app(app, leak_build), LAMBDA a1 :
    IF a1.fault # "none" THEN a1
    ELSE IF a1.root_pod = None THEN Panic(a1, "unwrap_none")
    ELSE run_app_logic(
           [a1 EXCEPT !.events = @ \o ev_widgets,
                      !.trace = LogAll(@, << Entry("event", <<>>, raw) >>
                                           \o Enqueued(ev_widgets))],
           leak))

\* The events wake_async makes of the id paths it took.
WakeEvents(id_paths) == [i \in 1..Len(id_paths) |-> Event(id_paths[i], AsyncWake)]

\* The return of a method that kept the driver busy over several steps.
Return(a) == IF a.fault # "none" THEN a ELSE [a EXCEPT !.pc = "idle"]

\* App::wake_async up to the return of self.wake_queue.take().
wake_async_take(app, result) ==
  [app EXCEPT !.taken = result, !.pc = "wake"]

\* A wake_async that re-renders only when it took something.
wake_async_if_any(app, leak) ==
  Then(app, LAMBDA a :
    IF a.taken = << >> THEN Return(a)
    ELSE Return(run_app_logic(
           [a EXCEPT !.events = @ \o WakeEvents(a.taken),
                     !.taken = << >>,
                     !.trace = LogAll(@, Enqueued(WakeEvents(a.taken)))],
           leak)))

\* App::wake_async after the take: the for loop over what take returned,
\* then run_app_logic.
wake_async(app, leak) ==
  Then(app, LAMBDA a :
    Return(run_app_logic(
      [a EXCEPT !.events = @ \o WakeEvents(a.taken),
                !.taken = << >>,
                !.trace = LogAll(@, Enqueued(WakeEvents(a.taken)))],
      leak)))

\* --------------------------------------------------------------- AppTask
\* AppReq
EventsReq(evs) == [kind |-> "Events", events |-> evs, view |-> None, state |-> None]

RenderReq == [kind |-> "Render", events |-> << >>, view |-> None, state |-> None]

ReturnViewReq(v, st) ==
  [kind |-> "ReturnView", events |-> << >>, view |-> Some(v), state |-> Some(st)]

\* RenderResponse
RenderResponse(prev, v, st) == [prev |-> prev, view |-> v, state |-> st]

\* A channel with nothing in flight and both ends alive.
Channel == [msgs |-> << >>, closed |-> FALSE]

\* The number of responses the bounded response channel holds.
ResponseCapacity == 1

\* The AppTask before its first request: as the App, it starts without a view.
\* sending is the response of a send that is waiting for room in the channel.
AppTaskNew ==
  [data |-> 0, view |-> None, state |-> None, pc |-> "recv", fault |-> "none",
   logic |-> 0, sending |-> None]

\* A take that leaves the value where it was.
OptionKeep(o) == o

\* Option::take: what stays in the field.
OptionTake(o) == None

\* A loop body that skips the event when the view or the state is absent.
TaskDispatchSkip(t, e) ==
  IF Len(e.id_path) < 1 THEN Panic(t, "slice_out_of_range")
  ELSE IF t.view = None \/ t.state = None THEN t
  ELSE Then(ViewEvent(Unwrap(t.view), Tail(e.id_path), Unwrap(t.state), e.body, t.data),
            LAMBDA r : [t EXCEPT !.state = Some(r.state), !.data = r.data])

\* The body of the for loop of the Events arm for one event.
TaskDispatchOne(t, e) ==
  IF Len(e.id_path) < 1 THEN Panic(t, "slice_out_of_range")
  ELSE IF t.view = None \/ t.state = None THEN Panic(t, "unwrap_none")
  ELSE Then(ViewEvent(Unwrap(t.view), Tail(e.id_path), Unwrap(t.state), e.body, t.data),
            LAMBDA r : [t EXCEPT !.state = Some(r.state), !.data = r.data])

\* AppReq::Events(events): the for loop; a panic ends it.
RECURSIVE task_events(_, _)
task_events(task0, evs) ==
  Then(task0, LAMBDA t :
    IF evs = << >> \/ t.fault # "none" THEN t
    ELSE task_events(TaskDispatchOne(t, Head(evs)), Tail(evs)))

\* A ReturnView arm that does nothing.
task_return_ignored(t, v, st) == t

\* AppReq::ReturnView(view, state)
task_return_view(t, v, st) == [t EXCEPT !.view = Some(v), !.state = Some(st)]

\* Whether the executor lets the task go on in its current poll.  The send
\* asks first; under a runtime with a cooperative budget the answer is no once
\* the poll has used the budget up.
BudgetLeft == BOOLEAN

\* response_chan.send(response) polled once: the task has to yield and the
\* send stays pending whatever the channel holds, or the receiver is gone and
\* the send fails, or the channel is full and the send stays pending with the
\* message, or the message goes into the channel.
Send(chan, msg, budget_left) ==
  IF ~budget_left THEN [chan |-> chan, err |-> FALSE, pending |-> TRUE]
  ELSE IF chan.closed THEN [chan |-> chan, err |-> TRUE, pending |-> FALSE]
  ELSE IF Len(chan.msgs) >= ResponseCapacity
  THEN [chan |-> chan, err |-> FALSE, pending |-> TRUE]
  ELSE [chan |-> [chan EXCEPT !.msgs = Append(@, msg)], err |-> FALSE, pending |-> FALSE]

\* A failed send that stops the task.
PanicOnSendError(t) == Panic(t, "send_error")

\* if ...is_err() { println!("error sending response") }
OnSendError(t) == t

\* The end of render once the send has an outcome: the task waits in the
\* send, or goes back to its receive loop.
task_sent(t, response, sent) ==
  [task |-> IF sent.pending THEN [t EXCEPT !.pc = "send", !.sending = Some(response)]
            ELSE IF sent.err THEN OnSendError([t EXCEPT !.pc = "recv", !.sending = None])
            ELSE [t EXCEPT !.pc = "recv", !.sending = None],
   chan |-> sent.chan,
   response |-> response,
   outcome |-> IF sent.pending THEN "pending" ELSE IF sent.err THEN "dropped" ELSE "sent"]

\* AppTask::render up to the first poll of the send: the task and the
\* response channel afterwards.
task_render(task0, chan, budget_left) ==
  Then(task0, LAMBDA t :
  Then(AppLogic(t.data), LAMBDA v :
  Then(RenderResponse(t.view, v, t.state), LAMBDA response :
  Then([t EXCEPT !.view = OptionTake(@), !.state = OptionTake(@), !.logic = @ + 1],
       LAMBDA t1 :
    task_sent(t1, response, Send(chan, response, budget_left))))))

\* AppTask::render woken in its send: the send is polled again, first in a
\* new poll of the task.
task_render_resume(task0, chan) ==
  Then(task0, LAMBDA t :
    task_sent(t, Unwrap(t.sending), Send(chan, Unwrap(t.sending), TRUE)))

\* ---------------------------------------------------------------- actions
\* Assigns the record of an App to the variables.
StoreFields(a) ==
  /\ data' = a.data
  /\ view' = a.view
  /\ id' = a.id
  /\ state' = a.state
  /\ events' = a.events
  /\ window_handle' = a.window_handle
  /\ root_pod' = a.root_pod
  /\ size' = a.size
  /\ cx' = a.cx
  /\ pc' = a.pc
  /\ fault' = a.fault
  /\ h_trace' = a.trace
  /\ h_builds' = a.builds
  /\ h_woken' = a.woken
  /\ taken' = a.taken
  /\ root_kind' = root_kind
  /\ UNCHANGED taskVars

\* The result of a method becomes the next state of the App.
Store(result) == \E a \in { result } : StoreFields(a)

DriverReady == pc = "idle" /\ fault = "none"

Restarts(tr) == CountOp(tr, "run_app_logic")

\* A producer outside push_wake.
ProducerIdle == [pc |-> "idle", id_path |-> << >>, was_empty |-> FALSE, ret |-> FALSE]

Init ==
  /\ data = AppNew.data
  /\ view = AppNew.view
  /\ id = AppNew.id
  /\ state = AppNew.state
  /\ events = AppNew.events
  /\ window_handle = AppNew.window_handle
  /\ root_pod = AppNew.root_pod
  /\ size = AppNew.size
  /\ cx = AppNew.cx
  /\ pc = AppNew.pc
  /\ fault = AppNew.fault
  /\ h_trace = AppNew.trace
  /\ h_builds = AppNew.builds
  /\ h_woken = AppNew.woken
  /\ taken = AppNew.taken
  /\ root_kind = "V"
  /\ task = AppTaskNew
  /\ req_chan = Channel
  /\ response_chan = Channel
  /\ held = None
  /\ h_handled = << >>
  /\ wake_queue = << >>
  /\ mutex = 0
  /\ prod = [p \in Producers |-> ProducerIdle]
  /\ signals = 0
  /\ h_pushed = << >>
  /\ h_taken = << >>
  /\ h_since_take = << >>

Connect(h) ==
  /\ DriverReady
  /\ Store(connect(Enter(App, "connect"), h))
  /\ UNCHANGED << queueVars, prod, signals >>

Size(s) ==
  /\ DriverReady
  /\ Store(set_size(Enter(App, "size"), s))
  /\ UNCHANGED << queueVars, prod, signals >>

EnsureApp(leak) ==
  /\ DriverReady
  /\ Store(ensure_app(Enter(App, "ensure_app"), leak))
  /\ UNCHANGED << queueVars, prod, signals >>

PaintBegin(leak) ==
  /\ DriverReady
  /\ Store(paint_begin(Enter(App, "paint"), leak))
  /\ UNCHANGED << queueVars, prod, signals >>

\* One iteration of the loop of App::paint.
PaintLoop(ev_layout, ev_prepare, leak) ==
  /\ pc = "paint" /\ fault = "none"
  /\ ev_layout # << >> => ev_prepare = << >>
  /\ Store(paint_pass(App, ev_layout, ev_prepare, leak))
  /\ UNCHANGED << queueVars, prod, signals >>

\* A pass that enqueues events is taken only while the call has restarts left.
PaintPass(ev_layout, ev_prepare, leak) ==
  /\ (ev_layout # << >> \/ ev_prepare # << >>) => Restarts(h_trace) < MaxPasses
  /\ PaintLoop(ev_layout, ev_prepare, leak)

\* A pass of a tree whose widgets enqueue an event on every pass.
RunawayPass(ev_layout, ev_prepare) ==
  /\ ev_layout # << >> \/ ev_prepare # << >>
  /\ PaintLoop(ev_layout, ev_prepare, 0)

WindowEvent(raw, ev_widgets, leak_build, leak) ==
  /\ DriverReady
  /\ ~NeedsBuild(view) => leak_build = 0
  /\ Store(window_event(Enter(App, "window_event"), raw, ev_widgets, leak_build, leak))
  /\ UNCHANGED << queueVars, prod, signals >>

\* WakeQueue::take: lock, replace, unlock.
Take(caller) ==
  /\ LockFree(mutex)
  /\ wake_queue' = TakeLeaves(wake_queue)
  /\ h_taken' = h_taken \o [i \in 1..Len(TakeResult(wake_queue)) |->
                             [id_path |-> TakeResult(wake_queue)[i], by |-> caller]]
  /\ h_since_take' = << >>
  /\ UNCHANGED << mutex, h_pushed >>

\* wake_async: self.wake_queue.take() has returned and released the mutex.
WakeAsyncTake ==
  /\ DriverReady
  /\ Take("wake_async")
  /\ Store(wake_async_take(Enter(App, "wake_async"), TakeResult(wake_queue)))
  /\ UNCHANGED prod

WakeAsyncBegin ==
  /\ WakeAsyncTake
  /\ UNCHANGED signals

\* wake_async: the rest of the call, which no longer touches the WakeQueue.
WakeAsyncRun(leak) ==
  /\ pc = "wake" /\ fault = "none"
  /\ Store(wake_async(App, leak))
  /\ UNCHANGED << queueVars, prod, signals >>

\* run_app_logic called from outside the App.
RunAppLogic(leak) ==
  /\ DriverReady
  /\ Store(run_app_logic(Enter(App, "run_app_logic"), leak))
  /\ UNCHANGED << queueVars, prod, signals >>

\* take called directly on the queue.
TakeDirect ==
  /\ fault = "none"
  /\ Take("take")
  /\ UNCHANGED << appVars, fault, prod, signals >>

\* push_wake calls begun so far.
PushCalls ==
  Len(h_pushed) + Cardinality({ q \in Producers : prod[q].pc \in { "locked", "checked" } })

\* push_wake: self.0.lock().  Wakers exist once a build has seen the context.
PushWakeLock(p, id_path) ==
  /\ fault = "none"
  /\ h_builds > 0
  /\ prod[p].pc = "idle"
  /\ PushCalls < MaxPushes
  /\ LockFree(mutex)
  /\ mutex' = p
  /\ prod' = [prod EXCEPT ![p] = [@ EXCEPT !.pc = "locked", !.id_path = id_path]]
  /\ UNCHANGED << appVars, fault, signals, wake_queue, h_pushed, h_taken, h_since_take >>

\* push_wake: let was_empty = queue.is_empty().
PushWakeIsEmpty(p) ==
  /\ fault = "none"
  /\ prod[p].pc = "locked"
  /\ prod' = [prod EXCEPT ![p] = [@ EXCEPT !.pc = "checked",
                                           !.was_empty = IsEmpty(wake_queue)]]
  /\ UNCHANGED << appVars, fault, signals, queueVars >>

\* push_wake: queue.push(id_path); the guard is dropped and was_empty returned.
PushWakePush(p) ==
  /\ fault = "none"
  /\ prod[p].pc = "checked"
  /\ wake_queue' = Push(wake_queue, prod[p].id_path)
  /\ mutex' = 0
  /\ prod' = [prod EXCEPT ![p] = [@ EXCEPT !.pc = "returned", !.ret = prod[p].was_empty]]
  /\ h_pushed' = Append(h_pushed, prod[p].id_path)
  /\ h_since_take' = Append(h_since_take,
                            [before |-> Len(wake_queue), ret |-> prod[p].was_empty])
  /\ UNCHANGED << appVars, fault, signals, h_taken >>

\* The producer goes on without using the result.
ProducerResume(p) ==
  /\ fault = "none"
  /\ prod[p].pc = "returned"
  /\ prod' = [prod EXCEPT ![p] = ProducerIdle]
  /\ UNCHANGED << appVars, fault, signals, queueVars >>

\* push_wake run from lock to unlock without another thread in between.
PushWake(p, id_path) ==
  /\ fault = "none"
  /\ h_builds > 0
  /\ prod[p].pc = "idle"
  /\ PushCalls < MaxWakes
  /\ LockFree(mutex)
  /\ wake_queue' = Push(wake_queue, id_path)
  /\ h_pushed' = Append(h_pushed, id_path)
  /\ h_since_take' = Append(h_since_take,
                            [before |-> Len(wake_queue), ret |-> IsEmpty(wake_queue)])
  /\ UNCHANGED << appVars, fault, signals, mutex, prod, h_taken >>

\* The driver thread's operations, with push_wake calls between them.
Next ==
  \/ \E h \in WindowHandles : Connect(h)
  \/ \E s \in Sizes : Size(s)
  \/ \E leak \in Leaks : EnsureApp(leak)
  \/ \E leak \in Leaks : PaintBegin(leak)
  \/ \E el, ep \in PhaseBatches, leak \in Leaks : PaintPass(el, ep, leak)
  \/ \E raw \in RawEvents, ev \in EventBatches, lb, leak \in Leaks :
       WindowEvent(raw, ev, lb, leak)
  \/ WakeAsyncBegin
  \/ \E leak \in Leaks : WakeAsyncRun(leak)
  \/ \E leak \in Leaks : RunAppLogic(leak)
  \/ \E p \in Producers, id_path \in WakePaths : PushWake(p, id_path)

Spec == Init /\ [][Next]_vars

\* The WakeQueue shared by the producer threads and the driver: push_wake
\* step by step, take directly and through wake_async.
NextQueue ==
  \/ EnsureApp(0)
  \/ WakeAsyncBegin
  \/ WakeAsyncRun(0)
  \/ TakeDirect
  \/ \E p \in Producers, id_path \in WakePaths : PushWakeLock(p, id_path)
  \/ \E p \in Producers : PushWakeIsEmpty(p)
  \/ \E p \in Producers : PushWakePush(p)
  \/ \E p \in Producers : ProducerResume(p)

SpecQueue == Init /\ [][NextQueue]_vars

\* The producer signals the driver's idle handle when push_wake returned true.
ProducerSignal(p) ==
  /\ fault = "none"
  /\ prod[p].pc = "returned"
  /\ signals' = IF prod[p].ret THEN signals + 1 ELSE signals
  /\ prod' = [prod EXCEPT ![p] = ProducerIdle]
  /\ UNCHANGED << appVars, fault, queueVars >>

\* The platform delivers one idle wake-up: the driver runs wake_async.
IdleWake ==
  /\ signals > 0
  /\ signals' = signals - 1
  /\ WakeAsyncTake

ProducerStep(p) ==
  \/ \E id_path \in WakePaths : PushWakeLock(p, id_path)
  \/ PushWakeIsEmpty(p)
  \/ PushWakePush(p)
  \/ ProducerSignal(p)

\* The wake-up protocol: producers signal after a push that found the queue
\* empty, the driver runs wake_async once for each signal.
NextWake ==
  \/ EnsureApp(0)
  \/ IdleWake
  \/ WakeAsyncRun(0)
  \/ \E p \in Producers : ProducerStep(p)

SpecWake ==
  /\ Init
  /\ [][NextWake]_vars
  /\ WF_vars(IdleWake)
  /\ WF_vars(WakeAsyncRun(0))
  /\ \A p \in Producers : WF_vars(PushWakeIsEmpty(p) \/ PushWakePush(p) \/ ProducerSignal(p))

\* App::paint on a tree that never settles.
NextRunaway ==
  \/ \E s \in Sizes : Size(s)
  \/ PaintBegin(0)
  \/ \E el, ep \in PhaseBatches : RunawayPass(el, ep)

SpecRunaway ==
  /\ Init
  /\ [][NextRunaway]_vars
  /\ WF_vars(\E el, ep \in PhaseBatches : RunawayPass(el, ep))

\* The application logic starts to return another variant of root view, one
\* that is structurally incompatible with the variant it returned before.
SwitchRoot(kind) ==
  /\ DriverReady
  /\ view # None
  /\ Unwrap(id) < RootId + MaxTeardowns
  /\ kind # root_kind
  /\ root_kind' = kind
  /\ UNCHANGED << data, view, id, state, events, window_handle, root_pod, size, cx,
                  taken, pc, fault, h_trace, h_builds, h_woken, queueVars, prod, signals,
                  taskVars >>

\* The driver of an application whose root variant changes between cycles.
NextRoot ==
  \/ \E kind \in RootKinds : SwitchRoot(kind)
  \/ \E leak \in Leaks : EnsureApp(leak)
  \/ \E raw \in RawEvents, ev \in EventBatches, lb, leak \in Leaks :
       WindowEvent(raw, ev, lb, leak)
  \/ WakeAsyncBegin
  \/ \E leak \in Leaks : WakeAsyncRun(leak)
  \/ \E leak \in Leaks : RunAppLogic(leak)

SpecRoot == Init /\ [][NextRoot]_vars

\* The driver with widgets and wakers that outlive their node of the tree:
\* some of the events they send name a node that was removed.
NextStale ==
  \/ \E s \in Sizes : Size(s)
  \/ EnsureApp(0)
  \/ \E raw \in RawEvents, ev \in StaleBatches : WindowEvent(raw, ev, 0, 0)
  \/ \E p \in Producers, id_path \in WakePaths \cup StalePaths : PushWake(p, id_path)
  \/ WakeAsyncBegin
  \/ WakeAsyncRun(0)

SpecStale == Init /\ [][NextStale]_vars

\* The WakeQueue fed through the public push_wake with any id path.
NextAnyPath ==
  \/ EnsureApp(0)
  \/ WakeAsyncBegin
  \/ WakeAsyncRun(0)
  \/ \E p \in Producers, id_path \in AnyWakePaths : PushWakeLock(p, id_path)
  \/ \E p \in Producers : PushWakeIsEmpty(p)
  \/ \E p \in Producers : PushWakePush(p)
  \/ \E p \in Producers : ProducerResume(p)

SpecAnyPath == Init /\ [][NextAnyPath]_vars

\* ------------------------------------------------- the task-isolated driver
driverVars == << data, view, id, state, events, window_handle, root_pod, size, cx,
                 root_kind, taken, pc, fault, h_trace, h_builds, h_woken, queueVars,
                 prod, signals >>

\* The record kept of one handled request.
Handled(req, before, after, sent, response) ==
  [kind |-> req.kind, n |-> Len(req.events),
   had |-> before.view # None /\ before.state # None,
   sent |-> sent, prev |-> response.prev, state |-> response.state,
   fault |-> after.fault]

NoResponse == RenderResponse(None, None, None)

\* self.req_chan.recv().await returned Some(req).
TaskReceives(kind) ==
  /\ task.pc = "recv" /\ task.fault = "none"
  /\ req_chan.msgs # << >>
  /\ Head(req_chan.msgs).kind = kind
  /\ req_chan' = [req_chan EXCEPT !.msgs = Tail(@)]

\* AppReq::Events(events)
TaskEvents ==
  /\ TaskReceives("Events")
  /\ \E t \in { task_events(task, Head(req_chan.msgs).events) } :
       /\ task' = t
       /\ h_handled' = Append(h_handled,
                              Handled(Head(req_chan.msgs), task, t, "none", NoResponse))
  /\ UNCHANGED << response_chan, held, driverVars >>

\* AppReq::Render: render runs until its send completes, fails or suspends.
TaskRender(budget_left) ==
  /\ TaskReceives("Render")
  /\ \E r \in { task_render(task, response_chan, budget_left) } :
       /\ task' = r.task
       /\ response_chan' = r.chan
       /\ h_handled' = Append(h_handled,
                              Handled(Head(req_chan.msgs), task, r.task,
                                      r.outcome, r.response))
  /\ UNCHANGED << held, driverVars >>

\* render suspended in its send is polled again: the channel has room, or
\* the receiver is gone.
TaskRenderResume ==
  /\ task.pc = "send" /\ task.fault = "none"
  /\ \E r \in { task_render_resume(task, response_chan) } :
       /\ ~(r.outcome = "pending")
       /\ task' = r.task
       /\ response_chan' = r.chan
       /\ h_handled' = [h_handled EXCEPT ![Len(h_handled)] =
                          [@ EXCEPT !.sent = r.outcome, !.fault = r.task.fault]]
  /\ UNCHANGED << req_chan, held, driverVars >>

\* AppReq::ReturnView(view, state)
TaskReturnView ==
  /\ TaskReceives("ReturnView")
  /\ \E t \in { task_return_view(task, Unwrap(Head(req_chan.msgs).view),
                                    Unwrap(Head(req_chan.msgs).state)) } :
       /\ task' = t
       /\ h_handled' = Append(h_handled,
                              Handled(Head(req_chan.msgs), task, t, "none", NoResponse))
  /\ UNCHANGED << response_chan, held, driverVars >>

\* recv returned None: every sender is gone and nothing is in flight.
TaskEnd ==
  /\ task.pc = "recv" /\ task.fault = "none"
  /\ req_chan.msgs = << >> /\ req_chan.closed
  /\ task' = [task EXCEPT !.pc = "done"]
  /\ UNCHANGED << req_chan, response_chan, held, h_handled, driverVars >>

RequestsSent == Len(h_handled) + Len(req_chan.msgs)

\* The caller sends a request.
CallerSend(req) ==
  /\ task.pc # "done" /\ task.fault = "none"
  /\ ~req_chan.closed
  /\ RequestsSent < MaxRequests
  /\ req_chan' = [req_chan EXCEPT !.msgs = Append(@, req)]
  /\ UNCHANGED << task, response_chan, held, h_handled, driverVars >>

SendEvents(evs) == CallerSend(EventsReq(evs))

SendRender == CallerSend(RenderReq)

\* The state the caller sends back: the borrowed one after its rebuild, or
\* the one it built when there was none.
CallerState(response) ==
  IF response.state = None THEN [last |-> "built"] ELSE Unwrap(response.state)

\* The caller sends back the view of the last response it received.
SendReturnView ==
  /\ held # None
  /\ CallerSend(ReturnViewReq(Unwrap(held).view, CallerState(Unwrap(held))))

\* The caller receives a response.
ReceiveResponse ==
  /\ ~response_chan.closed
  /\ response_chan.msgs # << >>
  /\ held' = Some(Head(response_chan.msgs))
  /\ response_chan' = [response_chan EXCEPT !.msgs = Tail(@)]
  /\ UNCHANGED << task, req_chan, h_handled, driverVars >>

\* The caller drops the receiver of the response channel.
CloseResponse ==
  /\ ~response_chan.closed
  /\ response_chan' = [msgs |-> << >>, closed |-> TRUE]
  /\ UNCHANGED << task, req_chan, held, h_handled, driverVars >>

\* The caller drops the sender of the request channel.
CloseRequest ==
  /\ ~req_chan.closed
  /\ req_chan' = [req_chan EXCEPT !.closed = TRUE]
  /\ UNCHANGED << task, response_chan, held, h_handled, driverVars >>

NextTask ==
  \/ \E evs \in TaskBatches : SendEvents(evs)
  \/ SendRender
  \/ SendReturnView
  \/ ReceiveResponse
  \/ CloseResponse
  \/ CloseRequest
  \/ TaskEvents
  \/ \E budget_left \in BudgetLeft : TaskRender(budget_left)
  \/ TaskRenderResume
  \/ TaskReturnView
  \/ TaskEnd

SpecTask == Init /\ [][NextTask]_vars


\* ================================================================= claims
LastCall == IF h_trace = << >> THEN "none" ELSE h_trace[1].body

PathsOf(takes) == [i \in 1..Len(takes) |-> takes[i].id_path]

TakenByWakeAsync == SelectSeq(h_taken, LAMBDA t : t.by = "wake_async")

\* ------------------------------------------------------------------- C1
\* Every id path pushed is either still queued or was returned by exactly
\* one take, in push order, and nothing else was ever returned.
QueueConservation == h_pushed = PathsOf(h_taken) \o wake_queue

\* The id paths wake_async took are, in order, those dispatched as AsyncWake
\* events followed by those a wake_async in progress still holds.
WakeEventsExact == h_woken \o taken = PathsOf(TakenByWakeAsync)

\* C1: in every interleaving of push_wake and take (direct or through
\* wake_async) every pushed id path is returned by exactly one take, no take
\* returns an id path that was not pushed, the queue is empty right after each
\* take, and wake_async makes exactly one AsyncWake event of each id path it took.
C1_PushTakeExact ==
  /\ [](QueueConservation /\ WakeEventsExact)
  /\ [][h_taken' # h_taken => wake_queue' = << >>]_vars

\* Two pushes of different id paths drained by one wake_async.
C1_Witness ==
  /\ pc = "idle"
  /\ Len(h_taken) = 2
  /\ h_taken[1].by = "wake_async" /\ h_taken[2].by = "wake_async"
  /\ h_taken[1].id_path # h_taken[2].id_path
  /\ LastCall = "wake_async"
  /\ CountOp(h_trace, "dispatch") = 2
  /\ wake_queue = << >>

\* ------------------------------------------------------------------- C2
\* C2: push_wake returns true exactly when the queue was empty at its append:
\* of the appends since the last take, the first returned true and all the
\* others returned false.
C2_OnlyFirstAppendReturnsTrue ==
  /\ Len(h_since_take) = Len(wake_queue)
  /\ \A i \in 1..Len(h_since_take) :
       /\ h_since_take[i].ret = (h_since_take[i].before = 0)
       /\ h_since_take[i].ret = (i = 1)

\* Both producers have returned from push_wake with no take in between: one
\* with true, the other with false.
C2_Witness ==
  /\ Len(h_since_take) = 2
  /\ \E p, q \in Producers :
       /\ prod[p].pc = "returned" /\ prod[p].ret
       /\ prod[q].pc = "returned" /\ ~prod[q].ret

\* ------------------------------------------------------------------- C3
\* A queued id path always has a wake-up on its way: a signal pending, or a
\* producer that got true and is about to signal.
WakeupOnItsWay ==
  wake_queue # << >> =>
    \/ signals > 0
    \/ \E p \in Producers : prod[p].pc = "returned" /\ prod[p].ret

\* C3: with producers that signal exactly when push_wake returned true and a
\* driver that runs wake_async once per signal, under fair scheduling the k-th
\* id path pushed is eventually dispatched as an AsyncWake event, and a queued
\* id path never lacks a pending or imminent signal.
C3_NoMissedWakeups ==
  /\ [](WakeupOnItsWay /\ WakeEventsExact /\ fault = "none")
  /\ \A k \in 1..(MaxPushes + 1) : (Len(h_pushed) >= k) ~> (Len(h_woken) >= k)

\* Two appends served by one drain: one signal, one wake_async, two events.
C3_Witness ==
  /\ signals = 0 /\ pc = "idle"
  /\ Len(h_woken) >= 2
  /\ LastCall = "wake_async"
  /\ CountOp(h_trace, "dispatch") >= 2
  /\ \A p \in Producers : prod[p].pc = "idle"


\* ------------------------------------------------------------------- C4
\* C4: a wake_async call, like window_event, first ensures the tree is built:
\* whatever state the driver was in, no unwrap of an absent field stops the
\* call, and after it the view exists.
C4_WakeAsyncEnsuresBuilt ==
  LastCall = "wake_async" =>
    /\ fault # "unwrap_none"
    /\ pc = "idle" => view # None

\* ------------------------------------------------- the history of a paint
\* The passes of a paint call start at its update entries.
UpdatePositions == Positions(h_trace, "update")

\* The last entry of the pass that starts at u.
PassEnd(u) ==
  LET later == { v \in UpdatePositions : v > u }
  IN IF later = { } THEN Len(h_trace)
     ELSE (CHOOSE v \in later : \A w \in later : v <= w) - 1

PassEnqueued(u) == \E i \in u..PassEnd(u) : h_trace[i].op = "enqueue"

EventfulPasses == { u \in UpdatePositions : PassEnqueued(u) }

OpsOf(tr) == [i \in 1..Len(tr) |-> tr[i].op]

LastPassOps ==
  IF UpdatePositions = { } THEN << >>
  ELSE LET u == CHOOSE v \in UpdatePositions : \A w \in UpdatePositions : w <= v
       IN OpsOf(SubSeq(h_trace, u, Len(h_trace)))

PaintReturned == LastCall = "paint" /\ pc = "idle" /\ fault = "none"

\* ------------------------------------------------------------------- C5
\* C5: in one App::paint call the root pod's paint runs once, as the last
\* step of a pass (update, measure, layout, prepare_paint) in which nothing was
\* enqueued; at that moment the pending queue is empty and every event enqueued
\* by an earlier pass has been dispatched and followed by a rebuild.  Until
\* then paint has not run.
C5_PaintOnlyOnCleanPass ==
  /\ (LastCall = "paint" /\ pc = "paint") => CountOp(h_trace, "paint") = 0
  /\ PaintReturned =>
       /\ CountOp(h_trace, "paint") = 1
       /\ LastPassOps = << "update", "measure", "layout", "prepare_paint", "paint" >>
       /\ events = << >>
       /\ CountOp(h_trace, "dispatch") = CountOp(h_trace, "enqueue")
       /\ \A i \in Positions(h_trace, "enqueue") :
            \E j \in Positions(h_trace, "rebuild") : j > i

\* A paint call that returned after a restart caused by prepare_paint.
C5_Witness ==
  /\ PaintReturned
  /\ Restarts(h_trace) >= 1
  /\ \E i \in Positions(h_trace, "prepare_paint") : h_trace[i + 1].op = "enqueue"

\* ------------------------------------------------------------------- C6
\* C6: a paint call whose every pass enqueues an event does not loop for
\* ever: it ends, after a bounded number of restarts, by returning or with a
\* fatal diagnostic.
C6_RunawayPaintEnds == (pc = "paint") ~> (pc = "idle" \/ fault # "none")

\* ------------------------------------------------------------------- C7
\* C7: in one App::paint call there are as many run_app_logic calls as passes
\* that enqueued events, each is followed by a new pass that starts with
\* update, and the call returns after one more pass with exactly one paint:
\* updates = restarts + 1.
C7_OneRestartPerEventfulPass ==
  (LastCall = "paint" /\ fault = "none") =>
    /\ Restarts(h_trace) = Cardinality(EventfulPasses)
    /\ \A j \in Positions(h_trace, "rebuild") :
         j < Len(h_trace) => h_trace[j + 1].op = "update"
    /\ pc = "paint" =>
         /\ CountOp(h_trace, "update") = Restarts(h_trace)
         /\ CountOp(h_trace, "paint") = 0
    /\ pc = "idle" =>
         /\ CountOp(h_trace, "update") = Restarts(h_trace) + 1
         /\ CountOp(h_trace, "paint") = 1
         /\ h_trace[Len(h_trace)].op = "paint"

\* Events on the first pass only: one restart, two updates, one paint.
C7_Witness ==
  /\ PaintReturned
  /\ Restarts(h_trace) = 1
  /\ CountOp(h_trace, "update") = 2
  /\ CountOp(h_trace, "paint") = 1
  /\ \E u \in UpdatePositions : h_trace[u + 1].op = "enqueue"

\* ------------------------------------------------------------------- C8
RootFields == << view, id, state, root_pod >>

\* C8: over any sequence of operations the root view is built at most once:
\* a build happens only from Uninitialized and makes the App Built; from then
\* on the four root fields stay present, the id stays the same, and an
\* ensure_app call changes none of them.
C8_BuildAtMostOnce ==
  /\ [](h_builds <= 1)
  /\ [][h_builds' # h_builds =>
          (view = None /\ h_builds = 0 /\ h_builds' = 1 /\ view' # None)]_vars
  /\ [][view # None =>
          (view' # None /\ state' # None /\ root_pod' # None /\ id' = id)]_vars
  /\ [][(view # None /\ h_trace' = << Entry("call", << >>, "ensure_app") >>) =>
          UNCHANGED RootFields]_vars

\* A paint call on an App that an earlier operation had built.
C8_Witness ==
  /\ PaintReturned
  /\ h_builds = 1
  /\ CountOp(h_trace, "build") = 0

\* ------------------------------------------------------------------- C9
\* C9 as stated: every window_event and wake_async call invokes the
\* application logic exactly once.
C9_Original_OneAppLogicPerCall ==
  (LastCall \in { "window_event", "wake_async" } /\ pc # "wake") =>
    CountOp(h_trace, "app_logic") = 1

\* C9 amended: every window_event and wake_async call invokes the
\* application logic exactly once in its re-render pass, after the events are
\* dispatched; a window_event call that finds the App Uninitialized invokes it
\* once more before that, for the initial build; wake_async never builds.
C9_OneAppLogicPerRerender ==
  (LastCall \in { "window_event", "wake_async" } /\ pc # "wake") =>
    /\ CountOp(h_trace, "run_app_logic") = 1
    /\ CountOp(h_trace, "app_logic") = 1 + CountOp(h_trace, "build")
    /\ LastCall = "wake_async" => CountOp(h_trace, "build") = 0
    /\ \E i \in Positions(h_trace, "app_logic") :
         \E r \in Positions(h_trace, "run_app_logic") : r < i

\* The first window_event of an Uninitialized App: two invocations.
C9_Witness ==
  /\ LastCall = "window_event"
  /\ fault = "none"
  /\ CountOp(h_trace, "build") = 1
  /\ CountOp(h_trace, "app_logic") = 2

\* ------------------------------------------------------------------ C10
RunPositions == Positions(h_trace, "run_app_logic")

\* The events enqueued since the previous run_app_logic, in order.
PendingAt(r) ==
  LET earlier == { q \in RunPositions : q < r }
      from == IF earlier = { } THEN 1
              ELSE (CHOOSE q \in earlier : \A w \in earlier : w <= q) + 1
  IN SelectSeq(SubSeq(h_trace, from, r - 1), LAMBDA e : e.op = "enqueue")

\* The position of the application-logic call of the run that starts at r,
\* or 0 when the run did not get that far.
LogicAfter(r) ==
  LET after == { i \in Positions(h_trace, "app_logic") : i > r }
  IN IF after = { } THEN 0 ELSE CHOOSE i \in after : \A w \in after : i <= w

\* C10: each run_app_logic hands every pending event to the view's event
\* operation exactly once, in the order of enqueueing, with the id path minus
\* its first segment, all before the application logic is invoked; and no
\* event is pending between the steps of the driver.
C10_DispatchInOrder ==
  /\ events = << >>
  /\ \A d \in Positions(h_trace, "dispatch") :
       \E r \in RunPositions : r < d /\ (LogicAfter(r) = 0 \/ d < LogicAfter(r))
  /\ \A r \in RunPositions :
       LogicAfter(r) # 0 =>
         SubSeq(h_trace, r + 1, LogicAfter(r) - 1)
           = [i \in 1..Len(PendingAt(r)) |->
                Entry("dispatch", Tail(PendingAt(r)[i].path), PendingAt(r)[i].body)]

\* One drain of two events for different nodes.
C10_Witness ==
  /\ fault = "none" /\ pc = "idle"
  /\ \E r \in RunPositions :
       /\ LogicAfter(r) = r + 3
       /\ h_trace[r + 1].path # h_trace[r + 2].path

\* ------------------------------------------------------------------ C11
LastOp == IF h_trace = << >> THEN "none" ELSE h_trace[Len(h_trace)].op

\* C11: a context that is not empty after the root rebuild is fatal:
\* run_app_logic faults there, the new view is not stored (the stored view is
\* the previous one, or the one just built by the same call), nothing of the
\* cycle runs after the rebuild, and the driver takes no further step.
C11_ImbalanceIsFatal ==
  /\ []((LastOp = "rebuild" /\ ~CxIsEmpty(cx)) => fault = "id_path_imbalance")
  /\ [](fault = "id_path_imbalance" => (LastOp = "rebuild" /\ ~CxIsEmpty(cx)))
  /\ [][fault' = "id_path_imbalance" =>
          /\ view' = (IF view = None THEN Some(AppLogic(data)) ELSE view)
          /\ pc' = pc]_vars
  /\ [][fault = "none"]_vars

\* A paint call stopped by the assertion in the middle of its loop, after
\* events had changed the data: the view of the new data was not stored.
C11_Witness ==
  /\ fault = "id_path_imbalance"
  /\ LastCall = "paint" /\ pc = "paint"
  /\ CountOp(h_trace, "dispatch") >= 1
  /\ Unwrap(view) # AppLogic(data)

\* ------------------------------------------------------------------ C12
\* C12: after any run_app_logic that returned normally, whether it rebuilt
\* the root or skipped the rebuild because the downcast failed, and whatever
\* the initial build left on the context, the context's scope stack is empty.
C12_CompletedCycleLeavesCxEmpty ==
  (fault = "none" /\ Restarts(h_trace) >= 1) => CxIsEmpty(cx)

\* ------------------------------------------------------------------ C13
\* The element a fresh build of v produces.
FreshElement(v) == Build(v, cx, 0, 0).element

\* C13: between the driver's operations the stored view and the retained
\* root pod describe the same view: the element is of the view's element type
\* and shows what a fresh build of the view would show, also after a cycle
\* in which the root pod's downcast failed.
C13_RootTypeChangeTearsDown ==
  (view # None /\ pc = "idle" /\ fault = "none") =>
    /\ root_pod # None
    /\ Unwrap(root_pod).element = FreshElement(Unwrap(view))

\* ------------------------------------------------------------------ C14
\* The events enqueued in the current call whose id path, without the root
\* segment, the view does not resolve.
StaleEnqueued ==
  { i \in Positions(h_trace, "enqueue") :
      view # None /\ ~Resolves(Unwrap(view), Tail(h_trace[i].path)) }

\* Their dispatches.
StaleDispatches ==
  { i \in Positions(h_trace, "dispatch") :
      view # None /\ ~Resolves(Unwrap(view), h_trace[i].path) }

\* C14: a pending event whose id path does not resolve does not make
\* run_app_logic fault: every pending event, before and after the stale one,
\* is dispatched in order, the application logic is invoked, the rebuild runs
\* and the call returns.
C14_StaleEventTolerated ==
  StaleEnqueued # { } =>
    /\ fault = "none" /\ pc = "idle"
    /\ Cardinality(StaleDispatches) = Cardinality(StaleEnqueued)
    /\ events = << >>
    /\ \A r \in RunPositions :
         /\ LogicAfter(r) # 0
         /\ SubSeq(h_trace, r + 1, LogicAfter(r) - 1)
              = [i \in 1..Len(PendingAt(r)) |->
                   Entry("dispatch", Tail(PendingAt(r)[i].path), PendingAt(r)[i].body)]
    /\ LastOp = "rebuild"
    /\ Unwrap(view) = AppLogic(data)

\* A stale event followed in the same drain by an event that resolved and
\* changed the data.
C14_Witness ==
  /\ fault = "none" /\ pc = "idle"
  /\ \E i \in StaleDispatches :
       /\ i + 1 \in Positions(h_trace, "dispatch") \ StaleDispatches
       /\ h_trace[i + 2].op = "app_logic"
  /\ LastOp = "rebuild"

\* --------------------------------------------- the history of the AppTask
HandledIdx == 1..Len(h_handled)

\* This step handled a request of the given kind.
HandledStep(kind) ==
  /\ Len(h_handled') = Len(h_handled) + 1
  /\ h_handled'[Len(h_handled')].kind = kind

ReturnBetween(i, j) == \E k \in (i + 1)..(j - 1) : h_handled[k].kind = "ReturnView"

\* The caller's contract: the request after a Render is a ReturnView.
ReturnAfterEveryRender ==
  \A i \in HandledIdx :
    (h_handled[i].kind = "Render" /\ i < Len(h_handled)) =>
      h_handled[i + 1].kind = "ReturnView"

\* No Events request before the first ReturnView.
NoEventsBeforeFirstReturn ==
  \A i \in HandledIdx :
    h_handled[i].kind = "Events" => \E j \in 1..(i - 1) : h_handled[j].kind = "ReturnView"

EventsFoundViewAndState ==
  /\ task.fault = "none"
  /\ \A i \in HandledIdx : h_handled[i].kind = "Events" => h_handled[i].had

\* The response channel has room for one more response.
HasRoom(chan) == ~chan.closed /\ Len(chan.msgs) < ResponseCapacity

\* What a Render request does to the task and the response channel: the
\* response goes into the channel, or is dropped when the channel is closed,
\* or waits in the send, as it must while the channel is open and full.
RenderEffect ==
  /\ task'.logic = task.logic + 1
  /\ task'.view = None /\ task'.state = None
  /\ task'.data = task.data
  /\ LET response == RenderResponse(task.view, AppLogic(task.data), task.state)
     IN \/ /\ response_chan.closed
           /\ response_chan' = response_chan /\ task'.pc = "recv"
        \/ /\ HasRoom(response_chan)
           /\ response_chan' = [response_chan EXCEPT !.msgs = Append(@, response)]
           /\ task'.pc = "recv"
        \/ /\ response_chan' = response_chan
           /\ task'.pc = "send" /\ task'.sending = Some(response)

\* The task leaves a send in which it waited.
SendResumed == task.pc = "send" /\ task'.pc # "send"

\* What the end of a send that waited does: the response goes into the
\* channel when it has room, and is dropped when the channel was closed.
SendResumedEffect ==
  /\ task' = [task EXCEPT !.pc = "recv", !.sending = None]
  /\ \/ /\ HasRoom(response_chan)
        /\ response_chan' = [response_chan EXCEPT !.msgs = Append(@, Unwrap(task.sending))]
        /\ h_handled'[Len(h_handled)].sent = "sent"
     \/ /\ response_chan.closed
        /\ response_chan' = response_chan
        /\ h_handled'[Len(h_handled)].sent = "dropped"

\* What a ReturnView request does to the task.
ReturnViewEffect ==
  /\ task'.view = Head(req_chan.msgs).view
  /\ task'.state = Head(req_chan.msgs).state
  /\ task'.view # None /\ task'.state # None

\* ------------------------------------------------------------------ C15
\* C15 as stated: a caller that sends ReturnView after every Render, before
\* any further Events or Render, never makes a request fault, and every Events
\* request finds the view and the state present.
C15_Original_ReturnAfterRenderSuffices ==
  ReturnAfterEveryRender => EventsFoundViewAndState

\* C15 amended: a Render request invokes the application logic exactly once
\* (nothing else invokes it), leaves the task's view and state absent and
\* sends, unless the response channel is closed, one response with the view
\* and state held before and the new view (at once, or after the send waited
\* for its turn or for room in the channel); ReturnView(view, state) makes
\* exactly that pair the task's; and a caller that sends ReturnView after every
\* Render and no Events before the first ReturnView never makes a request
\* fault: every Events request finds the view and the state present.
C15_RenderReturnViewProtocol ==
  /\ [][HandledStep("Render") => RenderEffect]_vars
  /\ [][SendResumed => SendResumedEffect]_vars
  /\ [][task'.logic # task.logic => HandledStep("Render")]_vars
  /\ [][HandledStep("ReturnView") => ReturnViewEffect]_vars
  /\ []((ReturnAfterEveryRender /\ NoEventsBeforeFirstReturn) => EventsFoundViewAndState)

\* Render, ReturnView, then an Events request that changed the data.
C15_Witness ==
  /\ Len(h_handled) = 3
  /\ h_handled[1].kind = "Render" /\ h_handled[1].sent = "sent"
  /\ h_handled[2].kind = "ReturnView"
  /\ h_handled[3].kind = "Events" /\ h_handled[3].n = 1 /\ h_handled[3].had
  /\ task.fault = "none" /\ task.data = 1 /\ task.logic = 1

\* ------------------------------------------------------------------ C16
\* Two Render requests with no ReturnView between them.
DoubleRenders ==
  { p \in HandledIdx \X HandledIdx :
      /\ p[1] < p[2]
      /\ h_handled[p[1]].kind = "Render" /\ h_handled[p[2]].kind = "Render"
      /\ ~ReturnBetween(p[1], p[2]) }

\* C16 as stated: once a second Render was handled without a ReturnView in
\* between, no later request makes the task's view and state present again.
C16_Original_AbsentForEver ==
  DoubleRenders # { } => (task.view = None /\ task.state = None)

\* C16 amended: a second Render handled without a ReturnView in between
\* sends a response with no previous view and no previous state and leaves
\* the task's view and state absent; they stay absent until a ReturnView
\* request is handled, and a ReturnView makes them present again.
C16_AbsentUntilReturnView ==
  /\ [](\A p \in DoubleRenders :
         h_handled[p[2]].prev = None /\ h_handled[p[2]].state = None)
  /\ []((h_handled # << >> /\ h_handled[Len(h_handled)].kind = "Render") =>
         (task.view = None /\ task.state = None))
  /\ [][(task.view = None /\ task'.view # None) => HandledStep("ReturnView")]_vars
  /\ [][(task.state = None /\ task'.state # None) => HandledStep("ReturnView")]_vars
  /\ [][HandledStep("ReturnView") => (task'.view # None /\ task'.state # None)]_vars

\* After two Render requests in a row a ReturnView restored the view and state.
C16_Witness ==
  /\ DoubleRenders # { }
  /\ h_handled[Len(h_handled)].kind = "ReturnView"
  /\ task.view # None /\ task.state # None

\* ------------------------------------------------------------------ C17
\* C17: a Render whose response cannot be sent because the response channel
\* is closed (when the send starts, or while it waits) returns normally: the response is dropped, the task is left as after a Render whose
\* response was sent, without a fault and back in its receive loop, where it
\* handles the requests that follow; the loop is left only when the request
\* channel is closed and empty.
C17_SendFailureIsSurvived ==
  /\ [][(HandledStep("Render") /\ response_chan.closed /\ task'.pc # "send") =>
          /\ h_handled'[Len(h_handled')].sent = "dropped"
          /\ response_chan' = response_chan
          /\ task' = [task EXCEPT !.view = None, !.state = None, !.logic = @ + 1]
          /\ task'.fault = "none" /\ task'.pc = "recv"]_vars
  /\ [](task.pc = "send" => task.fault = "none")
  /\ [][(SendResumed /\ response_chan.closed) =>
          /\ h_handled'[Len(h_handled)].sent = "dropped"
          /\ response_chan' = response_chan
          /\ task' = [task EXCEPT !.pc = "recv", !.sending = None]
          /\ task'.fault = "none"]_vars
  /\ [](\A i \in HandledIdx : h_handled[i].sent = "dropped" => h_handled[i].fault = "none")
  /\ [][(task'.pc = "done" /\ task.pc # "done") =>
          (task.pc = "recv" /\ req_chan.closed /\ req_chan.msgs = << >>)]_vars
  /\ [](task.fault # "send_error")

\* After a dropped response the task handled a ReturnView and left its loop
\* when the caller closed the request channel.
C17_Witness ==
  /\ task.pc = "done"
  /\ \E i, j \in HandledIdx :
       /\ i < j
       /\ h_handled[i].sent = "dropped"
       /\ h_handled[j].kind = "ReturnView"
  /\ task.view # None

\* ------------------------------------------------------------------ C19
\* Events requests with at least one event handled after a dropped response
\* and before the next ReturnView.
EventsAfterDrop ==
  { p \in HandledIdx \X HandledIdx :
      /\ p[1] < p[2]
      /\ h_handled[p[1]].sent = "dropped"
      /\ h_handled[p[2]].kind = "Events" /\ h_handled[p[2]].n >= 1
      /\ ~ReturnBetween(p[1], p[2]) }

\* C19: the view and state taken for a response that could not be sent are
\* lost: they are in no channel, the task's view and state stay absent until
\* a ReturnView request is handled, and an Events request with at least one
\* event handled before that faults on the absent view, after which the task
\* handles nothing more.
C19_DroppedResponseLosesView ==
  /\ [][((HandledStep("Render") \/ SendResumed) /\ response_chan.closed) =>
          (response_chan' = response_chan /\ held' = held
           /\ task'.view = None /\ task'.state = None
           /\ (task'.pc = "recv" => task'.sending = None))]_vars
  /\ [][(task.view = None /\ task'.view # None) => HandledStep("ReturnView")]_vars
  /\ [](\A p \in EventsAfterDrop :
         ~h_handled[p[2]].had /\ h_handled[p[2]].fault = "unwrap_none")
  /\ [][task.fault # "none" => UNCHANGED << task, h_handled >>]_vars

\* A view that the task held was lost with a dropped response, and the
\* Events request that followed stopped the task.
C19_Witness ==
  /\ task.fault = "unwrap_none"
  /\ \E p \in EventsAfterDrop :
       /\ h_handled[p[1]].prev # None
       /\ p[2] = p[1] + 1

\* ------------------------------------------------------------------ C18
AllAbsent == view = None /\ id = None /\ state = None /\ root_pod = None

AllPresent == view # None /\ id # None /\ state # None /\ root_pod # None

\* C18: the view, id, state and root pod of the App are all absent or all
\* present; once present they stay present; and an unwrap of an absent field
\* faults only in a call that found the App Uninitialized and did not go
\* through ensure_app: a wake_async, or a run_app_logic called from outside.
C18_RootFieldsAllOrNothing ==
  /\ [](AllAbsent \/ AllPresent)
  /\ [][AllPresent => AllPresent']_vars
  /\ [][fault' = "unwrap_none" =>
          (AllAbsent /\ h_trace'[1].body \in { "wake_async", "run_app_logic" })]_vars
  /\ []((AllPresent \/ LastCall \in { "paint", "window_event", "ensure_app" })
          => fault # "unwrap_none")

\* A window_event that built the App and dispatched an event, followed by a
\* paint call that restarted and dispatched again: every unwrap succeeded.
C18_Witness ==
  /\ PaintReturned
  /\ AllPresent
  /\ CountOp(h_trace, "build") = 0
  /\ CountOp(h_trace, "dispatch") >= 2
  /\ Restarts(h_trace) >= 2

\* ------------------------------------------------------------------ C20
\* The id paths enqueued by the current call, in order.
EnqueuedPaths ==
  LET es == SelectSeq(h_trace, LAMBDA e : e.op = "enqueue")
  IN [i \in 1..Len(es) |-> es[i].path]

DispatchedPaths ==
  LET ds == SelectSeq(h_trace, LAMBDA e : e.op = "dispatch")
  IN [i \in 1..Len(ds) |-> ds[i].path]

\* The enqueued id paths before the first empty one.
RECURSIVE BeforeEmpty(_)
BeforeEmpty(paths) ==
  IF paths = << >> \/ Head(paths) = << >> THEN << >>
  ELSE << Head(paths) >> \o BeforeEmpty(Tail(paths))

====
